---- MODULE Spec2Model ----
(***************************************************************************)
(* Model of the CLARIN-FCS endpoint of kosh: query translation             *)
(* (_cql2cqp), backend search (search.entries), the result-set cursor      *)
(* (KoshFCSSearchResultSet) and the highlight decode loop of write_record. *)
(*                                                                         *)
(* Python strings are sequences of one-character strings.  An Optional     *)
(* value is a sequence of length at most one: None is <<>>, a present      *)
(* value x is <<x>>.                                                       *)
(***************************************************************************)
EXTENDS Integers, Sequences, FiniteSets, TLC

VARIABLES
    pc,                     \* position of the modelled call chain
    node,                   \* query.parsed_query.root handed to _cql2cqp
    cqp,                    \* outcome of _cql2cqp(node)
    fragments,              \* structure of the highlighted text (content chars and markers)
    text,                   \* write_record: local text
    hits,                   \* write_record: local hits
    sruRequest,             \* the SRURequest handed to KoshFCSEndpointSearchEngine.search
    raised,                 \* SRUException raised by search, if any
    backendLog,             \* backend queries executed so far
    entriesReturn,          \* outcome of the last search.entries call
    results,                \* KoshFCSSearchResultSet.results
    request,                \* KoshFCSSearchResultSet.request
    start_record,           \* KoshFCSSearchResultSet.start_record
    current_record_cursor,  \* KoshFCSSearchResultSet.current_record_cursor
    maximum_records,        \* KoshFCSSearchResultSet.maximum_records
    record_count,           \* KoshFCSSearchResultSet.record_count
    lastReturn,             \* outcome of the last next_record() call
    trueCount,              \* number of next_record() calls that returned True
    falseCount              \* number of next_record() calls that did not return True

vars == <<pc, node, cqp, fragments, text, hits, sruRequest, raised, backendLog,
          entriesReturn, results, request, start_record, current_record_cursor,
          maximum_records, record_count, lastReturn, trueCount, falseCount>>

translateVars == <<node, cqp>>
decodeVars == <<fragments, text, hits>>
searchVars == <<sruRequest, raised, backendLog, entriesReturn>>
cursorVars == <<results, request, start_record, current_record_cursor,
                maximum_records, record_count, lastReturn, trueCount, falseCount>>

----------------------------------------------------------------------------
(* Bounds *)

MaxTermLen == 4         \* longest search term
MaxFragments == 6       \* most content characters and markers in one text
MaxHits == 3            \* most documents a small index matches
MaxStart == 3           \* largest requested start record
MaxRequested == 3       \* largest requested maximum_records
MaxFalseCalls == 2      \* next_record() calls made after the cursor stopped advancing

----------------------------------------------------------------------------
(* Generic helpers *)

None == <<>>
Some(x) == <<x>>
Min(a, b) == IF a < b THEN a ELSE b
Max(a, b) == IF a > b THEN a ELSE b

SeqsUpTo(S, n) == UNION {[1..k -> S] : k \in 0..n}

RECURSIVE Concat(_)
Concat(ss) == IF ss = <<>> THEN <<>> ELSE Head(ss) \o Concat(Tail(ss))

\* str.startswith at 1-based position i
MatchesAt(s, sub, i) ==
    /\ i + Len(sub) - 1 <= Len(s)
    /\ \A j \in 1..Len(sub) : s[i + j - 1] = sub[j]

\* sub in s
Contains(s, sub) == \E i \in 1..(Len(s) + 1) : MatchesAt(s, sub, i)

\* s.index(sub), 0-based as in Python; only used when sub in s
Index(s, sub) == (CHOOSE i \in 1..(Len(s) + 1) :
                    /\ MatchesAt(s, sub, i)
                    /\ \A j \in 1..(i - 1) : ~MatchesAt(s, sub, j)) - 1

\* s[a:b] for 0 <= a, b
Slice(s, a, b) == SubSeq(s, a + 1, Min(b, Len(s)))

----------------------------------------------------------------------------
(* _cql2cqp *)

Whitespace == {" ", "\t"}
Quotes == {"\"", "'"}
TermChars == {"a", "B", "\"", "'"} \cup Whitespace

\* str.lower on one character
LowerChar(c) == IF c = "B" THEN "b" ELSE IF c = "A" THEN "a" ELSE c
Lower(s) == [i \in 1..Len(s) |-> LowerChar(s[i])]

\* str.split() without arguments: runs of whitespace separate, no empty tokens
RECURSIVE SplitFrom(_, _, _)
SplitFrom(s, i, cur) ==
    IF i > Len(s) THEN (IF cur = <<>> THEN <<>> ELSE <<cur>>)
    ELSE IF s[i] \in Whitespace
         THEN (IF cur = <<>> THEN SplitFrom(s, i + 1, <<>>)
               ELSE <<cur>> \o SplitFrom(s, i + 1, <<>>))
         ELSE SplitFrom(s, i + 1, Append(cur, s[i]))
Split(s) == SplitFrom(s, 1, <<>>)

\* str.strip(chars)
RECURSIVE LStrip(_, _)
LStrip(s, chars) ==
    IF s # <<>> /\ Head(s) \in chars THEN LStrip(Tail(s), chars) ELSE s
RECURSIVE RStrip(_, _)
RStrip(s, chars) ==
    IF s # <<>> /\ s[Len(s)] \in chars
    THEN RStrip(SubSeq(s, 1, Len(s) - 1), chars) ELSE s
Strip(s, chars) == RStrip(LStrip(s, chars), chars)

\* sep.join(parts)
RECURSIVE Join(_, _)
Join(sep, parts) ==
    IF parts = <<>> THEN <<>>
    ELSE IF Len(parts) = 1 THEN parts[1]
    ELSE parts[1] \o sep \o Join(sep, Tail(parts))

UNSUPPORTED_BOOLEAN_OPERATOR == "UNSUPPORTED_BOOLEAN_OPERATOR"
CANNOT_PROCESS_QUERY_REASON_UNKNOWN == "CANNOT_PROCESS_QUERY_REASON_UNKNOWN"
RECORD_NOT_AVAILABLE_IN_THIS_SCHEMA == "RECORD_NOT_AVAILABLE_IN_THIS_SCHEMA"

Returned(v) == [raised |-> FALSE, value |-> v, diagnostic |-> "", details |-> ""]
Raise(diag, det) == [raised |-> TRUE, value |-> <<>>, diagnostic |-> diag, details |-> det]
NoOutcome == [raised |-> FALSE, value |-> <<>>, diagnostic |-> "pending", details |-> ""]

CQLTriple(op) == [kind |-> "CQLTriple", operator |-> op, term |-> <<>>]
CQLSearchClause(t) == [kind |-> "CQLSearchClause", operator |-> "", term |-> t]
OtherNode == [kind |-> "other", operator |-> "", term |-> <<>>]
NoNode == [kind |-> "none", operator |-> "", term |-> <<>>]

BooleanOperators == {"and", "or", "not"}

\* variant that strips the quotes on the single-token path as well
Cql2CqpStripAlways(n) ==
    IF n.kind = "CQLTriple"
    THEN Raise(UNSUPPORTED_BOOLEAN_OPERATOR, n.operator)
    ELSE IF n.kind = "CQLSearchClause"
    THEN LET terms == Split(Lower(n.term))
         IN  Returned(Join(<<" ">>, [i \in 1..Len(terms) |-> Strip(terms[i], Quotes)]))
    ELSE Raise(CANNOT_PROCESS_QUERY_REASON_UNKNOWN, "unknown cql node")

\* variant that rejects only the binary operators as boolean operators
Cql2CqpOnlyAndOr(n) ==
    IF n.kind = "CQLTriple" /\ n.operator \in {"and", "or"}
    THEN Raise(UNSUPPORTED_BOOLEAN_OPERATOR, n.operator)
    ELSE IF n.kind = "CQLSearchClause"
    THEN LET terms == Split(Lower(n.term))
         IN  IF Len(terms) = 1 THEN Returned(terms[1])
             ELSE Returned(Join(<<" ">>, [i \in 1..Len(terms) |-> Strip(terms[i], Quotes)]))
    ELSE Raise(CANNOT_PROCESS_QUERY_REASON_UNKNOWN, "unknown cql node")

Cql2Cqp(n) ==
    IF n.kind = "CQLTriple"
    THEN Raise(UNSUPPORTED_BOOLEAN_OPERATOR, n.operator)
    ELSE IF n.kind = "CQLSearchClause"
    THEN LET terms == Split(Lower(n.term))
         IN  IF Len(terms) = 1 THEN Returned(terms[1])
             ELSE Returned(Join(<<" ">>, [i \in 1..Len(terms) |-> Strip(terms[i], Quotes)]))
    ELSE Raise(CANNOT_PROCESS_QUERY_REASON_UNKNOWN, "unknown cql node")

----------------------------------------------------------------------------
(* KoshFCSSearchResultSet.write_record: the highlight decode loop *)

marker_s == <<"{", "{", "{", "#", "!", "H", "L", "S", "!", "#", "}", "}", "}">>
marker_e == <<"{", "{", "{", "#", "!", "H", "L", "E", "!", "#", "}", "}", "}">>

ContentChars == {"a", "{"}
StartToken == "<em>"
EndToken == "</em>"
FragmentTokens == ContentChars \cup {StartToken, EndToken}

\* .replace("<em>", marker_s).replace("</em>", marker_e) followed by the text join
Expand(tok) == IF tok = StartToken THEN marker_s
               ELSE IF tok = EndToken THEN marker_e
               ELSE <<tok>>
MarkedText(frags) == Concat([i \in 1..Len(frags) |-> Expand(frags[i])])

\* text[:i] + text[i + len(marker):]
RemoveAt(t, i, marker) == Slice(t, 0, i) \o Slice(t, i + Len(marker), Len(t))

\* variant that looks the end marker up before the start marker is removed
DecodeStepNoShift(st) ==
    LET start == Index(st.text, marker_s)
        end == Index(st.text, marker_e)
        t1 == RemoveAt(st.text, start, marker_s)
        t2 == RemoveAt(t1, Index(t1, marker_e), marker_e)
    IN  [text |-> t2, hits |-> Append(st.hits, <<start, end>>)]

\* one iteration of the while loop
DecodeStep(st) ==
    LET start == Index(st.text, marker_s)
        t1 == RemoveAt(st.text, start, marker_s)
        end == Index(t1, marker_e)
        t2 == RemoveAt(t1, end, marker_e)
    IN  [text |-> t2, hits |-> Append(st.hits, <<start, end>>)]

RECURSIVE DecodeLoop(_)
DecodeLoop(st) ==
    IF Contains(st.text, marker_s) /\ Contains(st.text, marker_e)
    THEN DecodeLoop(DecodeStep(st))
    ELSE st

----------------------------------------------------------------------------
(* KoshFCSSearchResultSet *)

FCS_NS == "http://clarin.eu/fcs/resource"
TEI_NS == "http://www.tei-c.org/ns/1.0"
DefaultMaximumRecords == 250
DefaultRecordCount == 250

\* truthiness of a Python Optional[list]: None and [] are both false
Truthy(res) == res # None /\ res[1] # <<>>

\* variant of __init__ whose window is one record too long
MaximumRecordsOffByOne(req) ==
    IF req # None
    THEN Max(1, req[1].start_record) + req[1].maximum_records
    ELSE DefaultMaximumRecords + 1

StartRecord(req) == IF req # None THEN Max(1, req[1].start_record) ELSE 1
MaximumRecords(req) ==
    IF req # None
    THEN StartRecord(req) - 1 + req[1].maximum_records
    ELSE DefaultMaximumRecords
RecordCount(req) == IF req # None THEN req[1].maximum_records ELSE DefaultRecordCount

GetTotalRecordCount(res) == IF Truthy(res) THEN Len(res[1]) ELSE -1

GetRecordCount(res, maxrec) ==
    IF Truthy(res) /\ Len(res[1]) > -1
    THEN (IF Len(res[1]) < maxrec THEN Len(res[1]) ELSE maxrec)
    ELSE 0

GetRecordSchemaIdentifier(req) ==
    IF req # None /\ req[1].record_schema_identifier \notin {"None", ""}
    THEN req[1].record_schema_identifier
    ELSE FCS_NS

GetSurrogateDiagnostic(req) ==
    LET rsid == GetRecordSchemaIdentifier(req)
    IN  IF rsid # "" /\ FCS_NS # rsid
        THEN Raise(RECORD_NOT_AVAILABLE_IN_THIS_SCHEMA, rsid)
        ELSE Returned(None)

\* variant of the loop condition that admits one record past the window
WithinWindowInclusive(cursor, res, maxrec) == cursor <= Min(Len(res), maxrec)

\* the condition of next_record; res is a present list
WithinWindow(cursor, res, maxrec) == cursor < Min(Len(res), maxrec)

----------------------------------------------------------------------------
(* search.entries *)

Hits(n) == [i \in 1..n |-> i]

\* find[offset:size]: a Python slice with start offset and stop size
SearchSlice(offset, size) == [from |-> offset, size |-> Max(0, size - offset)]

BackendModes == {"ok", "execute_raises", "normalise_raises", "build_raises"}
Backends == [mode : BackendModes, matches : 0..MaxHits]

\* variant that lets an execution failure escape
EntriesPropagating(env, field, query, query_type, size, offset, highlight) ==
    LET window == SearchSlice(offset, size)
        issued == [field |-> IF field # "id" THEN field ELSE "_id",
                   query |-> query, query_type |-> query_type,
                   highlight |-> highlight /\ field # "id",
                   from |-> window.from, size |-> window.size,
                   offset |-> offset, requested |-> size,
                   outcome |-> env.mode]
    IN  IF env.mode = "build_raises"
        THEN [raised |-> TRUE, value |-> <<>>, log |-> <<>>]
        ELSE IF env.mode = "ok"
        THEN [raised |-> FALSE,
              value |-> Slice(Hits(env.matches), window.from, window.from + window.size),
              log |-> <<issued>>]
        ELSE [raised |-> TRUE, value |-> <<>>, log |-> <<issued>>]

Entries(env, field, query, query_type, size, offset, highlight) ==
    LET window == SearchSlice(offset, size)
        issued == [field |-> IF field # "id" THEN field ELSE "_id",
                   query |-> query, query_type |-> query_type,
                   highlight |-> highlight /\ field # "id",
                   from |-> window.from, size |-> window.size,
                   offset |-> offset, requested |-> size,
                   outcome |-> env.mode]
    IN  IF env.mode = "build_raises"
        THEN [raised |-> TRUE, value |-> <<>>, log |-> <<>>]
        ELSE IF env.mode = "ok"
        THEN [raised |-> FALSE,
              value |-> Slice(Hits(env.matches), window.from, window.from + window.size),
              log |-> <<issued>>]
        ELSE [raised |-> FALSE, value |-> <<>>, log |-> <<issued>>]

----------------------------------------------------------------------------
(* Inputs *)

Terms == SeqsUpTo(TermChars, MaxTermLen)
SearchTerms == {<<"B">>, <<"'", "a", "'">>, <<"a", " ", "B">>}
SchemaIds == {"None", FCS_NS, TEI_NS}
HitCounts == (0..MaxHits) \cup {DefaultMaximumRecords, DefaultMaximumRecords + 1}
ResultLists == {None} \cup {Some(Hits(n)) : n \in HitCounts}

Nodes(terms) ==
    {CQLTriple(op) : op \in BooleanOperators}
        \cup {CQLSearchClause(t) : t \in terms}
        \cup {OtherNode}

Requests ==
    [query_type : {"cql"}, node : Nodes(SearchTerms),
     start_record : 0..MaxStart, maximum_records : 0..MaxRequested,
     record_schema_identifier : SchemaIds]
    \cup
    [query_type : {"fcs"}, node : {NoNode},
     start_record : 0..MaxStart, maximum_records : 0..MaxRequested,
     record_schema_identifier : SchemaIds]

ConstructorRequests ==
    {None} \cup {Some(r) : r \in {q \in Requests : q.node = CQLSearchClause(<<"B">>)}}

NotCalled == [called |-> FALSE, raised |-> FALSE, value |-> <<>>]
EntriesOutcome(e) == [called |-> TRUE, raised |-> e.raised, value |-> e.value]

----------------------------------------------------------------------------
(* State machine *)

Idle ==
    /\ node = NoNode
    /\ cqp = NoOutcome
    /\ fragments = <<>>
    /\ text = <<>>
    /\ hits = <<>>
    /\ sruRequest = None
    /\ raised = None
    /\ backendLog = <<>>
    /\ entriesReturn = NotCalled
    /\ results = None
    /\ request = None
    /\ start_record = 1
    /\ current_record_cursor = 0
    /\ maximum_records = 0
    /\ record_count = 0
    /\ lastReturn = "none"
    /\ trueCount = 0
    /\ falseCount = 0

Init ==
    /\ pc = "idle"
    /\ Idle

\* KoshFCSSearchResultSet.__init__
NewResultSet(res, req) ==
    /\ results' = res
    /\ request' = req
    /\ start_record' = StartRecord(req)
    /\ current_record_cursor' = StartRecord(req) - 1
    /\ maximum_records' = MaximumRecords(req)
    /\ record_count' = RecordCount(req)
    /\ UNCHANGED <<lastReturn, trueCount, falseCount>>

\* a result set constructed directly
Construct(res, req) ==
    /\ pc = "idle"
    /\ pc' = "resultset"
    /\ NewResultSet(res, req)
    /\ UNCHANGED <<translateVars, decodeVars, searchVars>>

\* search.entries called directly
CallEntries(env, field, size, offset, highlight) ==
    /\ pc = "idle"
    /\ LET e == Entries(env, field, <<"a">>, "term", size, offset, highlight)
       IN  /\ backendLog' = backendLog \o e.log
           /\ entriesReturn' = EntriesOutcome(e)
           /\ pc' = IF e.raised THEN "entries_raised" ELSE "entries_returned"
    /\ UNCHANGED <<translateVars, decodeVars, cursorVars, sruRequest, raised>>

\* KoshFCSEndpointSearchEngine.search
Search(req, env) ==
    /\ pc = "idle"
    /\ sruRequest' = Some(req)
    /\ IF req.query_type = "cql"
       THEN LET q == Cql2Cqp(req.node)
            IN  IF q.raised
                THEN /\ raised' = Some([diagnostic |-> q.diagnostic, details |-> q.details])
                     /\ pc' = "raised"
                     /\ UNCHANGED <<backendLog, entriesReturn, cursorVars>>
                ELSE LET e == Entries(env, "xml", q.value, "term",
                                      req.maximum_records, 0, TRUE)
                     IN  /\ backendLog' = backendLog \o e.log
                         /\ entriesReturn' = EntriesOutcome(e)
                         /\ NewResultSet(IF e.raised THEN None ELSE Some(e.value), None)
                         /\ pc' = "resultset"
                         /\ UNCHANGED raised
       ELSE /\ raised' = Some([diagnostic |-> CANNOT_PROCESS_QUERY_REASON_UNKNOWN,
                               details |-> "queryType not supported"])
            /\ pc' = "raised"
            /\ UNCHANGED <<backendLog, entriesReturn, cursorVars>>
    /\ UNCHANGED <<translateVars, decodeVars>>

\* KoshFCSSearchResultSet.next_record
NextRecord ==
    /\ pc = "resultset"
    /\ IF results = None
       THEN \* len(None) raises TypeError
            /\ falseCount < MaxFalseCalls
            /\ lastReturn' = "TypeError"
            /\ falseCount' = falseCount + 1
            /\ UNCHANGED <<current_record_cursor, trueCount>>
       ELSE IF WithinWindow(current_record_cursor, results[1], maximum_records)
       THEN /\ current_record_cursor' = current_record_cursor + 1
            /\ lastReturn' = "True"
            /\ trueCount' = trueCount + 1
            /\ UNCHANGED falseCount
       ELSE /\ falseCount < MaxFalseCalls
            /\ lastReturn' = "False"
            /\ falseCount' = falseCount + 1
            /\ UNCHANGED <<current_record_cursor, trueCount>>
    /\ UNCHANGED <<pc, translateVars, decodeVars, searchVars, results, request,
                   start_record, maximum_records, record_count>>

Next ==
    \/ \E res \in ResultLists, req \in ConstructorRequests : Construct(res, req)
    \/ \E env \in Backends, field \in {"xml", "id"}, size \in 0..MaxRequested,
          offset \in 0..MaxStart, highlight \in BOOLEAN :
            CallEntries(env, field, size, offset, highlight)
    \/ \E req \in Requests, env \in Backends : Search(req, env)
    \/ NextRecord

Spec == Init /\ [][Next]_vars

(* _cql2cqp on its own *)

InitTranslate ==
    /\ pc = "parsed"
    /\ node \in Nodes(Terms)
    /\ cqp = NoOutcome
    /\ fragments = <<>>
    /\ text = <<>>
    /\ hits = <<>>
    /\ sruRequest = None
    /\ raised = None
    /\ backendLog = <<>>
    /\ entriesReturn = NotCalled
    /\ results = None
    /\ request = None
    /\ start_record = 1
    /\ current_record_cursor = 0
    /\ maximum_records = 0
    /\ record_count = 0
    /\ lastReturn = "none"
    /\ trueCount = 0
    /\ falseCount = 0

Translate ==
    /\ pc = "parsed"
    /\ cqp' = Cql2Cqp(node)
    /\ pc' = "translated"
    /\ UNCHANGED <<node, decodeVars, searchVars, cursorVars>>

NextTranslate == Translate

SpecTranslate == InitTranslate /\ [][NextTranslate]_vars

(* the decode loop of write_record on its own *)

InitDecode ==
    /\ pc = "highlighted"
    /\ fragments \in SeqsUpTo(FragmentTokens, MaxFragments)
    /\ text = MarkedText(fragments)
    /\ hits = <<>>
    /\ node = NoNode
    /\ cqp = NoOutcome
    /\ sruRequest = None
    /\ raised = None
    /\ backendLog = <<>>
    /\ entriesReturn = NotCalled
    /\ results = None
    /\ request = None
    /\ start_record = 1
    /\ current_record_cursor = 0
    /\ maximum_records = 0
    /\ record_count = 0
    /\ lastReturn = "none"
    /\ trueCount = 0
    /\ falseCount = 0

WriteRecord ==
    /\ pc = "highlighted"
    /\ LET st == DecodeLoop([text |-> text, hits |-> hits])
       IN  /\ text' = st.text
           /\ hits' = st.hits
    /\ pc' = "written"
    /\ UNCHANGED <<fragments, translateVars, searchVars, cursorVars>>

NextDecode == WriteRecord

SpecDecode == InitDecode /\ [][NextDecode]_vars

----------------------------------------------------------------------------
(* Properties of the result set and of search *)

HitsPresent == results # None
HitCount == IF results = None THEN 0 ELSE Len(results[1])
Calls == trueCount + falseCount
ViaSearch == sruRequest # None

\* C1: get_total_record_count() returns the length of a present hit list
\* (0 for a present, empty one) and -1 only when the hit list is absent.
C1_TotalCountTellsFailureFromZeroHits ==
    pc = "resultset" =>
        /\ HitsPresent => GetTotalRecordCount(results) = Len(results[1])
        /\ GetTotalRecordCount(results) = -1 => ~HitsPresent

BackendRaised ==
    /\ backendLog # <<>>
    /\ backendLog[Len(backendLog)].outcome = "execute_raises"

\* C2: when executing the backend query raises, search.entries returns an
\* empty hit sequence and raises nothing, and the result set that search
\* builds from it reports a total record count of -1.
C2_FailOpenBackend ==
    BackendRaised =>
        /\ entriesReturn = [called |-> TRUE, raised |-> FALSE, value |-> <<>>]
        /\ pc \notin {"entries_raised", "raised"}
        /\ ViaSearch =>
              /\ pc = "resultset"
              /\ raised = None
              /\ GetTotalRecordCount(results) = -1

C2_Witness ==
    /\ BackendRaised
    /\ ViaSearch
    /\ pc = "resultset"
    /\ sruRequest[1].maximum_records > 0

Advances == Max(0, Min(HitCount, maximum_records) - (start_record - 1))

\* C3: on a present hit list of length N, next_record() returns true exactly
\* min(N, maximum_records) - (start_record - 1) times (zero times when that is
\* not positive), then false; from the first false on every call returns false
\* and the cursor stays where it is.
C3_AdvancesThenStaysExhausted ==
    (pc = "resultset" /\ HitsPresent) =>
        /\ trueCount = Min(Calls, Advances)
        /\ current_record_cursor = start_record - 1 + trueCount
        /\ falseCount > 0 => (lastReturn = "False" /\ trueCount = Advances)
        /\ (Calls > 0 /\ falseCount = 0) => lastReturn = "True"

C3_Witness ==
    /\ pc = "resultset"
    /\ HitsPresent
    /\ request # None
    /\ start_record > 1
    /\ maximum_records < HitCount
    /\ trueCount > 0
    /\ falseCount = MaxFalseCalls

ShapeError(diag, det) ==
    /\ pc = "raised"
    /\ raised = Some([diagnostic |-> diag, details |-> det])
    /\ backendLog = <<>>
    /\ entriesReturn = NotCalled

\* C4: a CQL request whose root is a boolean triple fails with
\* unsupported-boolean-operator carrying the operator, a root that is neither
\* a triple nor a search clause fails with cannot-process-query, and neither
\* request issues a backend query.
C4_QueryShapeErrorsPrecedeBackend ==
    (ViaSearch /\ sruRequest[1].query_type = "cql") =>
        LET root == sruRequest[1].node
        IN  /\ root.kind = "CQLTriple" =>
                  ShapeError(UNSUPPORTED_BOOLEAN_OPERATOR, root.operator)
            /\ root.kind \notin {"CQLTriple", "CQLSearchClause"} =>
                  ShapeError(CANNOT_PROCESS_QUERY_REASON_UNKNOWN, "unknown cql node")

C4_Witness ==
    /\ ViaSearch
    /\ sruRequest[1].node = CQLTriple("not")
    /\ pc = "raised"
    /\ raised = Some([diagnostic |-> UNSUPPORTED_BOOLEAN_OPERATOR, details |-> "not"])

\* C7: search.entries asks the backend for the size hits starting at offset.
C7_SliceIsOffsetPlusSize ==
    \A i \in DOMAIN backendLog :
        /\ backendLog[i].from = backendLog[i].offset
        /\ backendLog[i].size = backendLog[i].requested

SchemaMismatch ==
    /\ ViaSearch
    /\ sruRequest[1].record_schema_identifier \notin {"None", "", FCS_NS}

\* C8: when the request names a record schema other than the FCS record
\* schema, the result set search returns signals
\* record-not-available-in-this-schema from get_surrogate_diagnostic.
C8_SchemaMismatchSurfaced ==
    (pc = "resultset" /\ SchemaMismatch) =>
        GetSurrogateDiagnostic(request) =
            Raise(RECORD_NOT_AVAILABLE_IN_THIS_SCHEMA,
                  sruRequest[1].record_schema_identifier)

\* C9 as stated: start_record - 1 <= cursor <= min(totalCount,
\* start_record - 1 + requestedCount), totalCount being
\* get_total_record_count().
C9_ResultWindowOriginal ==
    pc = "resultset" =>
        /\ start_record - 1 <= current_record_cursor
        /\ current_record_cursor <=
              Min(GetTotalRecordCount(results), start_record - 1 + record_count)

\* C9 amended: start_record - 1 <= cursor <= max(start_record - 1,
\* min(N, start_record - 1 + requestedCount)), N being the length of the hit
\* list (0 when it is absent).
C9_ResultWindowAmended ==
    pc = "resultset" =>
        /\ start_record - 1 <= current_record_cursor
        /\ current_record_cursor <=
              Max(start_record - 1, Min(HitCount, start_record - 1 + record_count))

C9_Witness ==
    /\ pc = "resultset"
    /\ request # None
    /\ trueCount > 0
    /\ current_record_cursor = start_record - 1 + record_count
    /\ current_record_cursor < HitCount
    /\ lastReturn = "False"

\* C10: on a result set whose hit list is absent, next_record() raises
\* nothing and returns false on every call.
C10_AbsentHitsSafeToIterate ==
    (pc = "resultset" /\ ViaSearch /\ ~HitsPresent /\ Calls > 0) =>
        /\ lastReturn = "False"
        /\ GetTotalRecordCount(results) = -1
        /\ GetRecordCount(results, maximum_records) = 0

----------------------------------------------------------------------------
(* Properties of _cql2cqp *)

NotWhitespace(c) == c \notin Whitespace

\* the maximal runs of non-whitespace characters of s, left to right
RunStarts(s) == {i \in 1..Len(s) : s[i] \notin Whitespace /\ (i = 1 \/ s[i - 1] \in Whitespace)}
RunEnd(s, i) == CHOOSE j \in i..Len(s) :
                    /\ \A k \in i..j : s[k] \notin Whitespace
                    /\ j = Len(s) \/ s[j + 1] \in Whitespace
NthRun(s, n) == LET i == CHOOSE p \in RunStarts(s) :
                            Cardinality({q \in RunStarts(s) : q < p}) = n - 1
                IN  SubSeq(s, i, RunEnd(s, i))

\* split on every single space, keeping empty pieces
RECURSIVE PiecesFrom(_, _, _)
PiecesFrom(s, i, cur) ==
    IF i > Len(s) THEN <<cur>>
    ELSE IF s[i] = " " THEN <<cur>> \o PiecesFrom(s, i + 1, <<>>)
    ELSE PiecesFrom(s, i + 1, Append(cur, s[i]))
Pieces(s) == PiecesFrom(s, 1, <<>>)

\* p is t without its leading and trailing quote characters
QuoteTrimmed(p, t) ==
    \E a, b \in 0..Len(t) :
        /\ a + b <= Len(t)
        /\ p = SubSeq(t, a + 1, Len(t) - b)
        /\ \A j \in 1..a : t[j] \in Quotes
        /\ \A j \in (Len(t) - b + 1)..Len(t) : t[j] \in Quotes
        /\ p = <<>> \/ (p[1] \notin Quotes /\ p[Len(p)] \notin Quotes)

\* C5: the lowercased term is split on whitespace; a single token is returned
\* with its quote characters kept; otherwise each token loses its leading and
\* trailing quote characters and the tokens are joined by one space.
C5_AsymmetricQuoteHandling ==
    (pc = "translated" /\ node.kind = "CQLSearchClause") =>
        LET lowered == Lower(node.term)
            n == Cardinality(RunStarts(lowered))
        IN  /\ ~cqp.raised
            /\ n = 1 => cqp.value = SelectSeq(lowered, NotWhitespace)
            /\ n = 0 => cqp.value = <<>>
            /\ n > 1 =>
                  /\ Len(Pieces(cqp.value)) = n
                  /\ \A i \in 1..n :
                        QuoteTrimmed(Pieces(cqp.value)[i], NthRun(lowered, i))

C5_Witness ==
    /\ pc = "translated"
    /\ node = CQLSearchClause(<<"\t", "\"", "B", "'">>)
    /\ cqp.value = <<"\"", "b", "'">>

----------------------------------------------------------------------------
(* Properties of the decode loop *)

IsMarker(tok) == tok \in {StartToken, EndToken}
IsContent(tok) == tok \in ContentChars
Markers(fr) == SelectSeq(fr, IsMarker)

\* disjoint, non-nested start/end pairs in left-to-right order
WellFormed(fr) ==
    /\ Len(Markers(fr)) % 2 = 0
    /\ \A i \in 1..Len(Markers(fr)) :
          Markers(fr)[i] = IF i % 2 = 1 THEN StartToken ELSE EndToken

MarkerPos(fr, n) == CHOOSE p \in 1..Len(fr) :
                        /\ IsMarker(fr[p])
                        /\ Cardinality({q \in 1..p : IsMarker(fr[q])}) = n
ContentBefore(fr, p) == Cardinality({q \in 1..(p - 1) : IsContent(fr[q])})

\* C6: for k well-formed marker pairs the loop leaves the text without
\* markers and k spans in document order, each in offsets of the stripped
\* text and enclosing exactly the content its marker pair enclosed.
C6_DecodeWellFormed ==
    (pc = "written" /\ WellFormed(fragments)) =>
        LET k == Len(Markers(fragments)) \div 2
        IN  /\ text = SelectSeq(fragments, IsContent)
            /\ Len(hits) = k
            /\ \A i \in 1..k :
                  LET ps == MarkerPos(fragments, 2 * i - 1)
                      pe == MarkerPos(fragments, 2 * i)
                  IN  /\ hits[i] = <<ContentBefore(fragments, ps), ContentBefore(fragments, pe)>>
                      /\ Slice(text, hits[i][1], hits[i][2]) = SubSeq(fragments, ps + 1, pe - 1)
            /\ \A i \in 1..(k - 1) : hits[i][2] <= hits[i + 1][1]

C6_Witness ==
    /\ pc = "written"
    /\ WellFormed(fragments)
    /\ Len(hits) = 2
    /\ hits[1][1] > 0
    /\ hits[1][2] > hits[1][1]

====
